---- MODULE Spec2Model ----
(***************************************************************************)
(* Model of ExplicaSurf: backend/app.py (TTL cache, four source adapters,  *)
(* merge_forecast, explain, GET /api/explain) and the Streamlit front end  *)
(* (get_ia_interpretation).                                                *)
(*                                                                         *)
(* Python values are tagged records, so that None, numbers, strings and    *)
(* containers can be compared with each other:                             *)
(*   None  [t |-> "none"]        number  [t |-> "num", n |-> 12]          *)
(* Lengths are in tenths of a metre, wind speeds in tenths of km/h (so     *)
(* that the factor 3.6 stays an integer), times in seconds.                *)
(***************************************************************************)
EXTENDS Integers, Sequences, FiniteSets, TLC

VARIABLES
    store,      \* TTLCache.store: key -> NoEntry or (ts, value)
    ttl,        \* TTLCache.ttl
    now,        \* time.time() and datetime.now(), in seconds
    lastSet,    \* history: key -> the most recent set(key, payload), or NoEntry
    lastOp,     \* history: the last cache operation and what it returned
    cfg,        \* which of STORMGLASS_API_KEY, OPENWEATHER_API_KEY, TIDE_API_URL are set
    pc,         \* where the request being served is in api_explain
    levelArg,   \* request.args.get("level")
    level,      \* api_explain's level
    om_raw, om_point, sg_raw, sg_point, ow_raw, ow_now, merged, tide,
                \* api_explain's locals of the same names
    resp,       \* the response of the last request served
    log,        \* history: what the adapter step just taken did, or the call of choose
    ia,         \* the front end's call of get_ia_interpretation: arguments and outcome
    threads     \* concurrent requests inside TTLCache.get / TTLCache.set: position and locals

cacheVars == <<store, ttl, now, lastSet, lastOp>>
appVars == <<cfg, pc, levelArg, level, om_raw, om_point, sg_raw, sg_point, ow_raw, ow_now,
             merged, tide, resp, log, ia, threads>>
locals == <<levelArg, level, om_raw, om_point, sg_raw, sg_point, ow_raw, ow_now, merged, tide>>
vars == <<store, ttl, now, lastSet, lastOp, cfg, pc, levelArg, level,
          om_raw, om_point, sg_raw, sg_point, ow_raw, ow_now, merged, tide, resp, log, ia,
          threads>>

----------------------------------------------------------------------------
(* Bounds *)

MaxTTL == 2         \* TTLs tried by the cache harness: 0..MaxTTL
MaxNow == 4         \* the cache harness stops its clock here
TickSeconds == 100  \* the time that passes between two requests, when it does
MaxClock == 200     \* the application's clock stops here
MaxEnabled == 2     \* how many of the three optional adapters are configured
MaxThreads == 2     \* concurrent requests inside the cache
MaxCalls == 3       \* cache operations they perform in all
MaxFields == 3      \* model names in one field of a Stormglass hour

----------------------------------------------------------------------------
(* Python values *)

None == [t |-> "none"]
Num(n) == [t |-> "num", n |-> n]
Str(s) == [t |-> "str", s |-> s]
\* True and False, which JSON true and false are loaded as
Bool(b) == [t |-> "bool", b |-> b]
\* a dict is the sequence of its <<key, value>> items, in insertion order
Dict(items) == [t |-> "dict", items |-> items]
List(elems) == [t |-> "list", elems |-> elems]
EmptyDict == Dict(<<>>)
EmptyList == List(<<>>)
Blob(name) == Dict(<< <<name, Num(1)>> >>)

IsDict(x) == x.t = "dict"
HasKey(d, k) == \E i \in DOMAIN d.items : d.items[i][1] = k
Item(d, k) == d.items[CHOOSE i \in DOMAIN d.items : d.items[i][1] = k][2]
\* d.get(k, default)
DictGet(d, k, default) == IF HasKey(d, k) THEN Item(d, k) ELSE default

\* a str whose characters the code looks at: the sequence of its characters
Chars(c) == [t |-> "chars", c |-> c]

\* bool(x)
Truthy(x) ==
    CASE x.t = "none" -> FALSE
      [] x.t = "chars" -> x.c # <<>>
      [] x.t = "num" -> x.n # 0
      [] x.t = "bool" -> x.b
      [] x.t = "dict" -> x.items # <<>>
      [] x.t = "list" -> x.elems # <<>>
      [] x.t = "str" -> x.s # ""
      [] OTHER -> TRUE

\* isinstance(x, (int, float)); bool is a subclass of int
IsNumber(x) == x.t \in {"num", "bool"}

\* float(x) of such an x: float(True) is 1.0 and float(False) 0.0, in the
\* unit of the field (booleans are tried only where that unit is the model's)
Float(x) == IF x.t = "bool" THEN Num(IF x.b THEN 1 ELSE 0) ELSE x

----------------------------------------------------------------------------
(* Configuration: app.py lines 14-21 *)

LAT == -129437      \* in 1e-4 degrees, the precision of the cache key
LON == -383539
TIDE_LOCATION == "Salvador"

KeyOpenMeteo == <<"openmeteo", LAT, LON>>
KeyStormglass == <<"stormglass", LAT, LON>>
KeyOpenweather == <<"openweather", LAT, LON>>
KeyTide == <<"tide", TIDE_LOCATION>>
CacheKeys == {KeyOpenMeteo, KeyStormglass, KeyOpenweather, KeyTide}

----------------------------------------------------------------------------
(* TTLCache *)

NoEntry == [t |-> "none"]
Entry(ts, value) == [t |-> "entry", ts |-> ts, value |-> value]

\* the mutant of get: expiry tested with >= instead of >
CacheGetEager(st, ttlv, nowv, key) ==
    LET item == st[key] IN
    IF item = NoEntry THEN [store |-> st, result |-> None]
    ELSE IF nowv - item.ts >= ttlv
         THEN [store |-> [st EXCEPT ![key] = NoEntry], result |-> None]
         ELSE [store |-> st, result |-> item.value]

\* TTLCache.get: `not item` is true only of a missing key, the stored item
\* being a 2-tuple
CacheGet(st, ttlv, nowv, key) ==
    LET item == st[key] IN
    IF item = NoEntry THEN [store |-> st, result |-> None]
    ELSE IF nowv - item.ts > ttlv
         THEN [store |-> [st EXCEPT ![key] = NoEntry], result |-> None]
         ELSE [store |-> st, result |-> item.value]

\* TTLCache.set
CacheSet(st, nowv, key, value) == [st EXCEPT ![key] = Entry(nowv, value)]

EmptyStore == [k \in CacheKeys |-> NoEntry]

----------------------------------------------------------------------------
(* The cache on its own: any sequence of get, set and passing time *)

HarnessPayloads == {EmptyDict, EmptyList, Blob("a"), Blob("b")}

NoOp == [op |-> "none"]

\* no request is inside the cache
NoThreads == <<>>

InitCache ==
    /\ store = EmptyStore
    /\ ttl \in 0..MaxTTL
    /\ now = 0
    /\ lastSet = [k \in CacheKeys |-> NoEntry]
    /\ lastOp = NoOp
    /\ cfg = [stormglass |-> FALSE, openweather |-> FALSE, tide |-> FALSE]
    /\ pc = "idle"
    /\ levelArg = None /\ level = None
    /\ om_raw = None /\ om_point = None /\ sg_raw = None /\ sg_point = None
    /\ ow_raw = None /\ ow_now = None /\ merged = None /\ tide = None
    /\ resp = None
    /\ log = None
    /\ threads = NoThreads
    /\ ia = None

Get(key) ==
    LET r == CacheGet(store, ttl, now, key) IN
    /\ store' = r.store
    /\ lastOp' = [op |-> "get", key |-> key, result |-> r.result]
    /\ UNCHANGED <<ttl, now, lastSet>> /\ UNCHANGED appVars

Set(key, value) ==
    /\ store' = CacheSet(store, now, key, value)
    /\ lastSet' = [lastSet EXCEPT ![key] = Entry(now, value)]
    /\ lastOp' = [op |-> "set", key |-> key, value |-> value]
    /\ UNCHANGED <<ttl, now>> /\ UNCHANGED appVars

Tick ==
    /\ now < MaxNow
    /\ now' = now + 1
    /\ lastOp' = NoOp
    /\ UNCHANGED <<store, ttl, lastSet>> /\ UNCHANGED appVars

HarnessKeys == {KeyOpenMeteo, KeyTide}

NextCache ==
    \/ \E k \in HarnessKeys : Get(k)
    \/ \E k \in HarnessKeys, v \in HarnessPayloads : Set(k, v)
    \/ Tick

SpecCache == InitCache /\ [][NextCache]_vars

\* C4: a get returns the payload of the most recent set of its key when the
\* time elapsed since that set is at most the TTL, and absent otherwise (also
\* when the key was never set); once the elapsed time exceeds the TTL the get
\* leaves no entry in the store; a set leaves exactly (now, payload) in the
\* store, whatever was there before.
CacheGetSetContract ==
    /\ lastOp.op = "get" =>
         LET s == lastSet[lastOp.key] IN
         IF s = NoEntry
         THEN lastOp.result = None /\ store[lastOp.key] = NoEntry
         ELSE IF now - s.ts <= ttl
              THEN lastOp.result = s.value /\ store[lastOp.key] = s
              ELSE lastOp.result = None /\ store[lastOp.key] = NoEntry
    /\ lastOp.op = "set" =>
         store[lastOp.key] = Entry(now, lastOp.value)

\* a get at exactly the TTL that returned a falsy payload, of a key set twice
CacheBoundaryHit ==
    /\ lastOp.op = "get"
    /\ lastSet[lastOp.key] # NoEntry
    /\ now - lastSet[lastOp.key].ts = ttl
    /\ ttl > 0
    /\ lastOp.result = EmptyDict

\* a get past the TTL that purged the entry
CacheExpiredPurge ==
    /\ lastOp.op = "get"
    /\ lastSet[lastOp.key] # NoEntry
    /\ now - lastSet[lastOp.key].ts > ttl
    /\ store[lastOp.key] = NoEntry

----------------------------------------------------------------------------
(* The cache under concurrent requests. The server handles each request in  *)
(* a thread of its own and TTLCache takes no lock, so another thread can    *)
(* run between any two steps of get: the read of the entry                 *)
(* (self.store.get), the comparison of its age with the TTL (which reads    *)
(* the clock), and the removal (self.store.pop). set evaluates time.time()  *)
(* and then writes the store once.                                          *)

Threads == 1..MaxThreads

\* the key the concurrent requests share
RaceKey == KeyOpenMeteo

\* the payload a thread fetched and sets
PayloadOf(t) == Blob(IF t % 2 = 1 THEN "a" ELSE "b")

\* a thread outside the cache, having called it n times
Outside(n) == [pc |-> "out", calls |-> n, item |-> NoEntry, ts |-> 0, result |-> None]

InitRace ==
    /\ store = EmptyStore
    /\ ttl \in 0..MaxTTL
    /\ now = 0
    /\ lastSet = [k \in CacheKeys |-> NoEntry]
    /\ lastOp = NoOp
    /\ cfg = [stormglass |-> FALSE, openweather |-> FALSE, tide |-> FALSE]
    /\ pc = "idle"
    /\ levelArg = None /\ level = None
    /\ om_raw = None /\ om_point = None /\ sg_raw = None /\ sg_point = None
    /\ ow_raw = None /\ ow_now = None /\ merged = None /\ tide = None
    /\ resp = None
    /\ ia = None
    /\ log = None
    /\ threads = [t \in Threads |-> Outside(0)]

\* the calls of the cache made so far
RECURSIVE CallsUpTo(_)
CallsUpTo(t) == IF t = 0 THEN 0 ELSE threads[t].calls + CallsUpTo(t - 1)
Calls == CallsUpTo(MaxThreads)

raceFrame == <<ttl, now, cfg, pc, levelArg, level, om_raw, om_point, sg_raw, sg_point,
               ow_raw, ow_now, merged, tide, resp, log, ia>>

\* get, first step: item = self.store.get(key); if not item: return None
GetRead(t) ==
    /\ threads[t].pc = "out" /\ Calls < MaxCalls
    /\ LET item == store[RaceKey] IN
       IF item = NoEntry
       THEN /\ threads' = [threads EXCEPT ![t] = Outside(threads[t].calls + 1)]
            /\ lastOp' = [op |-> "get", key |-> RaceKey, result |-> None, thread |-> t]
       ELSE /\ threads' = [threads EXCEPT ![t] =
                              [@ EXCEPT !.pc = "read", !.calls = @ + 1, !.item = item]]
            /\ lastOp' = NoOp
    /\ UNCHANGED <<store, lastSet>> /\ UNCHANGED raceFrame

\* get, second step: ts, value = item; if time.time() - ts > self.ttl: ...
\* else return value
GetCompare(t) ==
    /\ threads[t].pc = "read"
    /\ IF now - threads[t].item.ts > ttl
       THEN /\ threads' = [threads EXCEPT ![t] = [@ EXCEPT !.pc = "expired"]]
            /\ lastOp' = NoOp
       ELSE /\ threads' = [threads EXCEPT ![t] =
                              [Outside(threads[t].calls) EXCEPT
                                  !.result = threads[t].item.value]]
            /\ lastOp' = [op |-> "get", key |-> RaceKey,
                          result |-> threads[t].item.value, thread |-> t]
    /\ UNCHANGED <<store, lastSet>> /\ UNCHANGED raceFrame

\* get, third step: self.store.pop(key, None); return None
GetPop(t) ==
    /\ threads[t].pc = "expired"
    /\ store' = [store EXCEPT ![RaceKey] = NoEntry]
    /\ threads' = [threads EXCEPT ![t] = Outside(threads[t].calls)]
    /\ lastOp' = [op |-> "pop", key |-> RaceKey, result |-> None, thread |-> t,
                  item |-> threads[t].item, removed |-> store[RaceKey]]
    /\ UNCHANGED lastSet /\ UNCHANGED raceFrame

\* set, first step: the value of (time.time(), value) is built
SetStamp(t) ==
    /\ threads[t].pc = "out" /\ Calls < MaxCalls
    /\ threads' = [threads EXCEPT ![t] =
                       [@ EXCEPT !.pc = "stamped", !.calls = @ + 1, !.ts = now]]
    /\ lastOp' = NoOp
    /\ UNCHANGED <<store, lastSet>> /\ UNCHANGED raceFrame

\* set, second step: self.store[key] = ..., the one write of the store
SetWrite(t) ==
    /\ threads[t].pc = "stamped"
    /\ store' = [store EXCEPT ![RaceKey] = Entry(threads[t].ts, PayloadOf(t))]
    /\ lastSet' = [lastSet EXCEPT ![RaceKey] = Entry(threads[t].ts, PayloadOf(t))]
    /\ threads' = [threads EXCEPT ![t] = Outside(threads[t].calls)]
    /\ lastOp' = [op |-> "set", key |-> RaceKey, value |-> PayloadOf(t), thread |-> t]
    /\ UNCHANGED raceFrame

\* time passes while the threads run
RaceTick ==
    /\ now < MaxNow
    /\ now' = now + 1
    /\ lastOp' = NoOp
    /\ UNCHANGED <<store, ttl, lastSet, threads, cfg, pc, levelArg, level, om_raw, om_point,
                   sg_raw, sg_point, ow_raw, ow_now, merged, tide, resp, log, ia>>

NextRace ==
    \/ \E t \in Threads : GetRead(t)
    \/ \E t \in Threads : GetCompare(t)
    \/ \E t \in Threads : GetPop(t)
    \/ \E t \in Threads : SetStamp(t)
    \/ \E t \in Threads : SetWrite(t)
    \/ RaceTick

SpecRace == InitRace /\ [][NextRace]_vars

\* every thread has finished its operations
Quiescent == Calls = MaxCalls /\ \A t \in Threads : threads[t].pc = "out"

\* the entry of the last set is still within the TTL
LastSetFresh == lastSet[RaceKey] # NoEntry /\ now - lastSet[RaceKey].ts <= ttl

\* C11: under any interleaving of the steps of concurrent gets and sets of
\* one key the last writer wins: an entry written by the last set stays in
\* the store for as long as its age is within the TTL, no get removes it (a
\* get that read the older, expired entry does not purge the fresh one), and
\* in particular it is there once all operations have finished.
LastWriterWins ==
    /\ LastSetFresh => store[RaceKey] = lastSet[RaceKey]
    /\ (Quiescent /\ LastSetFresh) => store[RaceKey] = lastSet[RaceKey]
    /\ lastOp.op = "pop" =>
         (lastOp.removed = NoEntry \/ now - lastOp.removed.ts > ttl)

----------------------------------------------------------------------------
(* Time parsing: parse_iso_list, nearest_index *)

\* an exception raised inside a try block
Raised == [t |-> "raised"]

\* an ISO 8601 string denoting second `at`, with a UTC designator or without
IsoStr(at, tz) == [t |-> "str", s |-> "iso", at |-> at, tz |-> tz]

\* datetime.datetime.fromisoformat: a datetime, aware when the string names an
\* offset; ValueError on anything that is not an ISO string
fromisoformat(x) ==
    IF x.t = "str" /\ x.s = "iso"
    THEN [t |-> "datetime", at |-> x.at, aware |-> x.tz # ""]
    ELSE Raised

\* parse_iso_list
parse_iso_list(iso_list) ==
    IF iso_list.t # "list" THEN Raised
    ELSE IF \E i \in DOMAIN iso_list.elems : fromisoformat(iso_list.elems[i]) = Raised
         THEN Raised
         ELSE [i \in DOMAIN iso_list.elems |-> fromisoformat(iso_list.elems[i])]

\* datetime.datetime.now(): a naive datetime
DatetimeNow(nowv) == [t |-> "datetime", at |-> nowv, aware |-> FALSE]

Abs(x) == IF x < 0 THEN -x ELSE x

Index(i) == [t |-> "index", i |-> i]

\* nearest_index, 1-based; Index(0) stands for the index Python returns on an
\* empty list. Subtracting a naive from an aware datetime raises TypeError.
nearest_index(times, nowv) ==
    IF times = <<>> THEN Index(0)
    ELSE IF \E i \in DOMAIN times : times[i].aware # DatetimeNow(nowv).aware THEN Raised
    ELSE Index(CHOOSE i \in DOMAIN times :
            \A j \in DOMAIN times :
                \/ Abs(times[i].at - nowv) < Abs(times[j].at - nowv)
                \/ Abs(times[i].at - nowv) = Abs(times[j].at - nowv) /\ i <= j)

----------------------------------------------------------------------------
(* Upstream HTTP responses and the body of the adapters' try blocks *)

TransportError == [kind |-> "transport_error"]
Timeout == [kind |-> "timeout"]
Http(status, body) == [kind |-> "http", status |-> status, body |-> body]
\* a body that is not JSON
NotJson == [t |-> "notjson"]

\* r = httpx.get(...); r.raise_for_status(); data = r.json()
TryGetJson(up) ==
    IF up.kind # "http" THEN Raised
    ELSE IF up.status >= 400 THEN Raised
    ELSE IF up.body = NotJson THEN Raised
    ELSE up.body

----------------------------------------------------------------------------
(* Source adapters: fetch *)

\* fetch_open_meteo: the store it leaves, what it returns, and whether it
\* issued the network call
fetch_open_meteo(st, ttlv, nowv, up) ==
    LET g == CacheGet(st, ttlv, nowv, KeyOpenMeteo)
        data == TryGetJson(up)
    IN  IF Truthy(g.result)
        THEN [store |-> g.store, result |-> g.result, net |-> FALSE]
        ELSE IF data = Raised
             THEN [store |-> g.store, result |-> None, net |-> TRUE]
             ELSE [store |-> CacheSet(g.store, nowv, KeyOpenMeteo, data),
                   result |-> data, net |-> TRUE]

\* fetch_stormglass
fetch_stormglass(st, ttlv, nowv, hasKey, up) ==
    IF ~hasKey THEN [store |-> st, result |-> None, net |-> FALSE]
    ELSE
    LET g == CacheGet(st, ttlv, nowv, KeyStormglass)
        data == TryGetJson(up)
    IN  IF Truthy(g.result)
        THEN [store |-> g.store, result |-> g.result, net |-> FALSE]
        ELSE IF up.kind = "http" /\ up.status = 429
             THEN [store |-> g.store, result |-> None, net |-> TRUE]
        ELSE IF data = Raised
             THEN [store |-> g.store, result |-> None, net |-> TRUE]
             ELSE [store |-> CacheSet(g.store, nowv, KeyStormglass, data),
                   result |-> data, net |-> TRUE]

\* fetch_openweather
fetch_openweather(st, ttlv, nowv, hasKey, up) ==
    IF ~hasKey THEN [store |-> st, result |-> None, net |-> FALSE]
    ELSE
    LET g == CacheGet(st, ttlv, nowv, KeyOpenweather)
        data == TryGetJson(up)
    IN  IF Truthy(g.result)
        THEN [store |-> g.store, result |-> g.result, net |-> FALSE]
        ELSE IF data = Raised
             THEN [store |-> g.store, result |-> None, net |-> TRUE]
             ELSE [store |-> CacheSet(g.store, nowv, KeyOpenweather, data),
                   result |-> data, net |-> TRUE]

\* fetch_tide
fetch_tide(st, ttlv, nowv, hasUrl, up) ==
    IF ~hasUrl THEN [store |-> st, result |-> None, net |-> FALSE]
    ELSE
    LET g == CacheGet(st, ttlv, nowv, KeyTide)
        data == TryGetJson(up)
    IN  IF Truthy(g.result)
        THEN [store |-> g.store, result |-> g.result, net |-> FALSE]
        ELSE IF data = Raised
             THEN [store |-> g.store, result |-> None, net |-> TRUE]
             ELSE [store |-> CacheSet(g.store, nowv, KeyTide, data),
                   result |-> data, net |-> TRUE]

----------------------------------------------------------------------------
(* Source adapters: normalisation *)

\* data["hourly"][name][idx], or the KeyError, TypeError or IndexError it raises
HourlyAt(data, name, idx) ==
    IF ~IsDict(data) \/ ~HasKey(data, "hourly") THEN Raised
    ELSE LET hourly == Item(data, "hourly") IN
         IF ~IsDict(hourly) \/ ~HasKey(hourly, name) THEN Raised
         ELSE LET col == Item(hourly, name) IN
              IF col.t # "list" \/ idx \notin DOMAIN col.elems THEN Raised
              ELSE col.elems[idx]

\* pick_open_meteo_point
pick_open_meteo_point(data, nowv) ==
    IF ~IsDict(data) \/ ~HasKey(data, "hourly") THEN None
    ELSE IF ~IsDict(Item(data, "hourly")) \/ ~HasKey(Item(data, "hourly"), "time") THEN None
    ELSE
    LET times_iso == Item(Item(data, "hourly"), "time")
        times == parse_iso_list(times_iso)
        idx == IF times = Raised THEN Raised ELSE nearest_index(times, nowv)
        Cols == <<"time", "wave_height", "wave_period", "wave_direction",
                  "wind_wave_height", "wind_wave_period", "wind_wave_direction">>
    IN  IF idx = Raised THEN None
        ELSE IF \E c \in DOMAIN Cols : HourlyAt(data, Cols[c], idx.i) = Raised THEN None
        ELSE [time |-> HourlyAt(data, "time", idx.i),
              wave_height_m |-> HourlyAt(data, "wave_height", idx.i),
              wave_period_s |-> HourlyAt(data, "wave_period", idx.i),
              wave_direction_deg |-> HourlyAt(data, "wave_direction", idx.i),
              wind_wave_height_m |-> HourlyAt(data, "wind_wave_height", idx.i),
              wind_wave_period_s |-> HourlyAt(data, "wind_wave_period", idx.i),
              wind_wave_direction_deg |-> HourlyAt(data, "wind_wave_direction", idx.i),
              source |-> Str("open-meteo")]

\* the preference order of choose
Prefs == <<"noaa", "dwd", "meteo", "icon", "sg">>

\* the mutant of choose: the first numeric value in the mapping's own order,
\* the preference list ignored
chooseFirstNumeric(src_dict) ==
    IF ~IsDict(src_dict) THEN None
    ELSE IF \E i \in DOMAIN src_dict.items : IsNumber(src_dict.items[i][2])
    THEN Float(src_dict.items[CHOOSE i \in DOMAIN src_dict.items :
                 /\ IsNumber(src_dict.items[i][2])
                 /\ \A j \in 1..(i - 1) : ~IsNumber(src_dict.items[j][2])][2])
    ELSE None

\* choose, nested in pick_stormglass_point
choose(src_dict) ==
    IF ~IsDict(src_dict) THEN None
    ELSE IF \E p \in DOMAIN Prefs : HasKey(src_dict, Prefs[p]) /\ IsNumber(Item(src_dict, Prefs[p]))
    THEN Float(Item(src_dict, Prefs[CHOOSE p \in DOMAIN Prefs :
                 /\ HasKey(src_dict, Prefs[p]) /\ IsNumber(Item(src_dict, Prefs[p]))
                 /\ \A q \in 1..(p - 1) :
                        ~(HasKey(src_dict, Prefs[q]) /\ IsNumber(Item(src_dict, Prefs[q])))]))
    ELSE IF \E i \in DOMAIN src_dict.items : IsNumber(src_dict.items[i][2])
    THEN Float(src_dict.items[CHOOSE i \in DOMAIN src_dict.items :
                 /\ IsNumber(src_dict.items[i][2])
                 /\ \A j \in 1..(i - 1) : ~IsNumber(src_dict.items[j][2])][2])
    ELSE None

\* metres per second to tenths of a kilometre per hour: float(x) * 3.6
MsToKmh(x) == Num(Float(x).n * 36)

\* h["time"].replace("Z", "+00:00"), parsed and made aware by .astimezone()
StormglassTime(h) ==
    IF ~IsDict(h) \/ ~HasKey(h, "time") THEN Raised
    ELSE IF Item(h, "time").t # "str" THEN Raised
    ELSE LET d == fromisoformat(Item(h, "time")) IN
         IF d = Raised THEN Raised ELSE [d EXCEPT !.aware = TRUE]

\* pick_stormglass_point
pick_stormglass_point(data, nowv) ==
    IF ~IsDict(data) THEN None
    ELSE
    LET hours == DictGet(data, "hours", EmptyList) IN
    IF ~Truthy(hours) THEN None
    ELSE IF hours.t # "list" THEN None
    ELSE IF \E i \in DOMAIN hours.elems : StormglassTime(hours.elems[i]) = Raised THEN None
    ELSE
    LET ts == [i \in DOMAIN hours.elems |-> StormglassTime(hours.elems[i])]
        idx == nearest_index(ts, nowv)
    IN  IF idx = Raised THEN None
        ELSE
        LET h == hours.elems[idx.i]
            wind_speed_ms == choose(DictGet(h, "windSpeed", EmptyDict))
        IN  [time |-> Item(h, "time"),
             wave_height_m |-> choose(DictGet(h, "waveHeight", EmptyDict)),
             wave_period_s |-> choose(DictGet(h, "wavePeriod", EmptyDict)),
             wave_direction_deg |-> choose(DictGet(h, "waveDirection", EmptyDict)),
             swell_height_m |-> choose(DictGet(h, "swellHeight", EmptyDict)),
             swell_period_s |-> choose(DictGet(h, "swellPeriod", EmptyDict)),
             swell_direction_deg |-> choose(DictGet(h, "swellDirection", EmptyDict)),
             wind_speed_kmh |-> IF wind_speed_ms # None THEN MsToKmh(wind_speed_ms) ELSE None,
             wind_direction_deg |-> choose(DictGet(h, "windDirection", EmptyDict)),
             source |-> Str("stormglass")]

\* data.get(outer, {}).get(inner, default), or the AttributeError it raises
GetGet(data, outer, inner, default) ==
    IF ~IsDict(data) THEN Raised
    ELSE LET o == DictGet(data, outer, EmptyDict) IN
         IF ~IsDict(o) THEN Raised ELSE DictGet(o, inner, default)

\* pick_openweather_now
pick_openweather_now(data) ==
    LET wind_ms == GetGet(data, "wind", "speed", None)
        wind_deg == GetGet(data, "wind", "deg", None)
        clouds == GetGet(data, "clouds", "all", None)
        temp_c == GetGet(data, "main", "temp", None)
        rain_1h == GetGet(data, "rain", "1h", Num(0))
    IN  IF \/ wind_ms = Raised \/ wind_deg = Raised \/ clouds = Raised
           \/ temp_c = Raised \/ rain_1h = Raised
        THEN None
        ELSE [wind_speed_kmh |-> IF IsNumber(wind_ms) THEN MsToKmh(wind_ms) ELSE None,
              wind_direction_deg |-> wind_deg,
              cloud_cover_pct |-> clouds,
              temp_c |-> temp_c,
              rain_mm_1h |-> rain_1h,
              source |-> Str("openweather")]

----------------------------------------------------------------------------
(* Merging logic *)

\* bool(point) of an Optional[Dict]: a normalised point always has keys
PointTruthy(point) == point # None

NoKeys == [k \in {} |-> None]

\* the mutant of MergeWaves: a wave height Stormglass leaves unset is filled
\* in from Open-Meteo
MergeWavesFill(om, sg) ==
    IF PointTruthy(sg) THEN
        [wave_height_m |-> IF sg.wave_height_m = None /\ PointTruthy(om)
                           THEN om.wave_height_m ELSE sg.wave_height_m,
         wave_period_s |-> sg.wave_period_s,
         wave_direction_deg |-> sg.wave_direction_deg,
         swell_height_m |-> sg.swell_height_m,
         swell_period_s |-> sg.swell_period_s,
         swell_direction_deg |-> sg.swell_direction_deg,
         sources |-> "waves" :> Str("stormglass")]
    ELSE IF PointTruthy(om) THEN
        [wave_height_m |-> om.wave_height_m,
         wave_period_s |-> om.wave_period_s,
         wave_direction_deg |-> om.wave_direction_deg,
         swell_height_m |-> om.wind_wave_height_m,
         swell_period_s |-> om.wind_wave_period_s,
         swell_direction_deg |-> om.wind_wave_direction_deg,
         sources |-> "waves" :> Str("open-meteo")]
    ELSE [sources |-> NoKeys]

\* merge_forecast, "Waves": the keys it sets in merged, and in merged["sources"]
MergeWaves(om, sg) ==
    IF PointTruthy(sg) THEN
        [wave_height_m |-> sg.wave_height_m,
         wave_period_s |-> sg.wave_period_s,
         wave_direction_deg |-> sg.wave_direction_deg,
         swell_height_m |-> sg.swell_height_m,
         swell_period_s |-> sg.swell_period_s,
         swell_direction_deg |-> sg.swell_direction_deg,
         sources |-> "waves" :> Str("stormglass")]
    ELSE IF PointTruthy(om) THEN
        [wave_height_m |-> om.wave_height_m,
         wave_period_s |-> om.wave_period_s,
         wave_direction_deg |-> om.wave_direction_deg,
         swell_height_m |-> om.wind_wave_height_m,
         swell_period_s |-> om.wind_wave_period_s,
         swell_direction_deg |-> om.wind_wave_direction_deg,
         sources |-> "waves" :> Str("open-meteo")]
    ELSE [sources |-> NoKeys]

\* the mutant of MergeWind: a source's wind is used when its speed is truthy
MergeWindTruthy(sg, ow) ==
    IF PointTruthy(ow) /\ Truthy(ow.wind_speed_kmh) THEN
        [wind_speed_kmh |-> ow.wind_speed_kmh,
         wind_direction_deg |-> ow.wind_direction_deg,
         sources |-> "wind" :> Str("openweather")]
    ELSE IF PointTruthy(sg) /\ Truthy(sg.wind_speed_kmh) THEN
        [wind_speed_kmh |-> sg.wind_speed_kmh,
         wind_direction_deg |-> sg.wind_direction_deg,
         sources |-> "wind" :> Str("stormglass")]
    ELSE [sources |-> NoKeys]

\* merge_forecast, "Wind": the keys it sets in merged, and in merged["sources"]
MergeWind(sg, ow) ==
    IF PointTruthy(ow) /\ ow.wind_speed_kmh # None THEN
        [wind_speed_kmh |-> ow.wind_speed_kmh,
         wind_direction_deg |-> ow.wind_direction_deg,
         sources |-> "wind" :> Str("openweather")]
    ELSE IF PointTruthy(sg) /\ sg.wind_speed_kmh # None THEN
        [wind_speed_kmh |-> sg.wind_speed_kmh,
         wind_direction_deg |-> sg.wind_direction_deg,
         sources |-> "wind" :> Str("stormglass")]
    ELSE [sources |-> NoKeys]

\* merge_forecast, "Reference time"
MergeTime(om, sg) ==
    IF PointTruthy(sg) /\ Truthy(sg.time) THEN sg.time
    ELSE IF PointTruthy(om) /\ Truthy(om.time) THEN om.time
    ELSE None

\* f without its key "sources"
Fields(f) == [k \in (DOMAIN f) \ {"sources"} |-> f[k]]

\* merge_forecast: a dict, as the function from its keys to their values
merge_forecast(om, sg, ow) ==
    [time |-> MergeTime(om, sg),
     sources |-> MergeWaves(om, sg).sources @@ MergeWind(sg, ow).sources]
    @@ Fields(MergeWaves(om, sg)) @@ Fields(MergeWind(sg, ow))

\* merged.get(k, default)
MergedGet(m, k, default) == IF k \in DOMAIN m THEN m[k] ELSE default

----------------------------------------------------------------------------
(* Explanation generator *)

INICIANTE == <<"i", "n", "i", "c", "i", "a", "n", "t", "e">>
INTERMEDIARIO == <<"i", "n", "t", "e", "r", "m", "e", "d", "i", "a", "r", "i", "o">>
AVANCADO == <<"a", "v", "a", "n", "c", "a", "d", "o">>

\* the text of one template with its four substitutions; format(x, ".1f") and
\* format(x, ".0f") raise TypeError on None, "{d}" prints any value
explain(lvl, m) ==
    LET h == MergedGet(m, "wave_height_m", Num(0))
        p == MergedGet(m, "wave_period_s", Num(0))
        w == MergedGet(m, "wind_speed_kmh", Num(0))
        d == MergedGet(m, "wind_direction_deg", Num(0))
    IN  IF ~IsNumber(h) \/ ~IsNumber(p) \/ ~IsNumber(w) THEN Raised
        ELSE [t |-> "str",
              s |-> IF lvl = Chars(INICIANTE) THEN "O mar esta com ~{h} m ..."
                    ELSE IF lvl = Chars(INTERMEDIARIO) THEN "Altura {h} m; ..."
                    ELSE "Hs={h} m, ...",
              h |-> h, p |-> p, w |-> w, d |-> d]

InsufficientData == Str("Sem dados suficientes no momento.")

----------------------------------------------------------------------------
(* What the environment can send: the level parameter and the upstreams'     *)
(* answers                                                                   *)

LevelArgs ==
    {None, Chars(<<>>), Chars(INICIANTE), Chars(INTERMEDIARIO), Chars(AVANCADO),
     Chars(<<"A", "v", "a", "n", "c", "a", "d", "o">>),
     Chars(<<"e", "x", "p", "e", "r", "t">>)}

\* an Open-Meteo body with two forecast hours
OmBody(wh, wp) ==
    Dict(<< <<"hourly", Dict(<<
        <<"time", List(<<IsoStr(0, ""), IsoStr(200, "")>>)>>,
        <<"wave_height", List(wh)>>,
        <<"wave_period", List(wp)>>,
        <<"wave_direction", List(<<Num(90), Num(95)>>)>>,
        <<"wind_wave_height", List(<<Num(4), Num(5)>>)>>,
        <<"wind_wave_period", List(<<Num(3), None>>)>>,
        <<"wind_wave_direction", List(<<Num(80), None>>)>> >>)>> >>)

\* a wave height with a period, then a wave height without one
OmSwell == OmBody(<<Num(12), Num(15)>>, <<Num(9), None>>)
\* a flat sea, then no reading
OmFlat == OmBody(<<Num(0), None>>, <<Num(7), None>>)
\* an hourly block whose time column is not a list of ISO strings
OmBadTime == Dict(<< <<"hourly", Dict(<< <<"time", List(<<Str("n/a")>>)>> >>)>> >>)

OpenMeteoUpstream ==
    {TransportError, Timeout, Http(500, NotJson), Http(200, NotJson),
     Http(200, EmptyDict), Http(200, OmBadTime), Http(200, OmSwell), Http(200, OmFlat)}

\* one Stormglass forecast hour
SgHour(at, waveHeight, wavePeriod, windSpeed) ==
    Dict(<< <<"time", IsoStr(at, "Z")>>,
            <<"waveHeight", waveHeight>>,
            <<"wavePeriod", wavePeriod>>,
            <<"swellHeight", Dict(<< <<"sg", Num(8)>>, <<"noaa", Num(7)>> >>)>>,
            <<"windSpeed", windSpeed>>,
            <<"windDirection", Dict(<< <<"icon", Str("n/a")>>, <<"sg", Num(120)>> >>)>> >>)

SgForecast ==
    Dict(<< <<"hours", List(<<
        SgHour(0, Dict(<< <<"sg", Num(14)>>, <<"noaa", Num(13)>> >>),
                  Dict(<< <<"meteo", Num(10)>> >>), Dict(<< <<"noaa", Num(5)>> >>)),
        SgHour(200, Dict(<< <<"fcoo", Num(11)>> >>), EmptyDict, Num(3)) >>)>> >>)

StormglassUpstream ==
    {TransportError, Http(429, Blob("errors")), Http(402, Blob("errors")),
     Http(200, NotJson), Http(200, Blob("meta")), Http(200, SgForecast)}

OwBody(speed, deg) ==
    Dict(<< <<"wind", Dict(<< <<"speed", speed>>, <<"deg", deg>> >>)>>,
            <<"clouds", Dict(<< <<"all", Num(40)>> >>)>>,
            <<"main", Dict(<< <<"temp", Num(27)>> >>)>> >>)

OpenweatherUpstream ==
    {Timeout, Http(401, Blob("cod")), Http(200, NotJson), Http(200, Blob("cod")),
     Http(200, OwBody(Num(0), Num(90))), Http(200, OwBody(Num(5), None))}

TideUpstream ==
    {TransportError, Http(404, NotJson), Http(200, NotJson), Http(200, EmptyList),
     Http(200, Blob("tides"))}

----------------------------------------------------------------------------
(* Flask routes *)

UpperCase == <<"A", "B", "C", "D", "E", "F", "G", "H", "I", "J", "K", "L", "M",
               "N", "O", "P", "Q", "R", "S", "T", "U", "V", "W", "X", "Y", "Z">>
LowerCase == <<"a", "b", "c", "d", "e", "f", "g", "h", "i", "j", "k", "l", "m",
               "n", "o", "p", "q", "r", "s", "t", "u", "v", "w", "x", "y", "z">>

\* str.lower()
Lower(x) ==
    Chars([i \in DOMAIN x.c |->
             IF \E u \in DOMAIN UpperCase : UpperCase[u] = x.c[i]
             THEN LowerCase[CHOOSE u \in DOMAIN UpperCase : UpperCase[u] = x.c[i]]
             ELSE x.c[i]])

\* a or b
Or(a, b) == IF Truthy(a) THEN a ELSE b

\* (request.args.get("level") or "iniciante").lower()
LevelOf(arg) == Lower(Or(arg, Chars(INICIANTE)))

\* the mutant of ValidLevels: one more level is let through
ValidLevelsAndExpert ==
    {Chars(INICIANTE), Chars(INTERMEDIARIO), Chars(AVANCADO),
     Chars(<<"e", "x", "p", "e", "r", "t">>)}

\* the set api_explain tests the level against
ValidLevels == {Chars(INICIANTE), Chars(INTERMEDIARIO), Chars(AVANCADO)}

\* an upstream answer from which fetch gets no data
FetchFails(up) == up.kind # "http" \/ up.status >= 400 \/ up.body = NotJson

\* what an adapter step did: the entry of its key before the call, whether the
\* call went to the network and the upstream's answer if it did, what fetch
\* returned, and the point normalised from it
Fetched(adapter, enabled, before, f, up, point) ==
    [t |-> "fetch", adapter |-> adapter, enabled |-> enabled, before |-> before,
     net |-> f.net, up |-> IF f.net THEN up ELSE None, raw |-> f.result, point |-> point]

TTL_SECONDS == 180

Count(b) == IF b THEN 1 ELSE 0

Configurations ==
    {c \in [stormglass : BOOLEAN, openweather : BOOLEAN, tide : BOOLEAN] :
        Count(c.stormglass) + Count(c.openweather) + Count(c.tide) <= MaxEnabled}

Init ==
    /\ store = EmptyStore
    /\ ttl = TTL_SECONDS
    /\ now = 0
    /\ lastSet = [k \in CacheKeys |-> NoEntry]
    /\ lastOp = NoOp
    /\ cfg \in Configurations
    /\ pc = "idle"
    /\ levelArg = None /\ level = None
    /\ om_raw = None /\ om_point = None /\ sg_raw = None /\ sg_point = None
    /\ ow_raw = None /\ ow_now = None /\ merged = None /\ tide = None
    /\ resp = None
    /\ log = None
    /\ threads = NoThreads
    /\ ia = None

\* api_explain, lines 312-314: the level is read and validated
ApiExplain(arg) ==
    /\ pc = "idle"
    /\ levelArg' = arg
    /\ level' = LevelOf(arg)
    /\ IF LevelOf(arg) \notin ValidLevels
       THEN /\ resp' = [status |-> 400, body |-> Blob("error")]
            /\ pc' = "done"
       ELSE /\ resp' = None
            /\ pc' = "open_meteo"
    /\ UNCHANGED <<threads, store, ttl, now, lastSet, lastOp, cfg, ia, om_raw, om_point, sg_raw, sg_point,
                   ow_raw, ow_now, merged, tide, log>>

\* api_explain, lines 315-316
StepOpenMeteo(up) ==
    /\ pc = "open_meteo"
    /\ LET f == fetch_open_meteo(store, ttl, now, up) IN
        /\ store' = f.store
        /\ om_raw' = f.result
        /\ om_point' = IF Truthy(f.result) THEN pick_open_meteo_point(f.result, now) ELSE None
        /\ log' = Fetched("open_meteo", TRUE, store[KeyOpenMeteo], f, up, om_point')
    /\ pc' = "stormglass"
    /\ UNCHANGED <<threads, ttl, now, lastSet, lastOp, cfg, ia, levelArg, level, sg_raw, sg_point,
                   ow_raw, ow_now, merged, tide, resp>>

\* api_explain, lines 317-318
StepStormglass(up) ==
    /\ pc = "stormglass"
    /\ LET f == fetch_stormglass(store, ttl, now, cfg.stormglass, up) IN
        /\ store' = f.store
        /\ sg_raw' = f.result
        /\ sg_point' = IF Truthy(f.result) THEN pick_stormglass_point(f.result, now) ELSE None
        /\ log' = Fetched("stormglass", cfg.stormglass, store[KeyStormglass], f, up, sg_point')
    /\ pc' = "openweather"
    /\ UNCHANGED <<threads, ttl, now, lastSet, lastOp, cfg, ia, levelArg, level, om_raw, om_point,
                   ow_raw, ow_now, merged, tide, resp>>

\* api_explain, lines 319-320
StepOpenweather(up) ==
    /\ pc = "openweather"
    /\ LET f == fetch_openweather(store, ttl, now, cfg.openweather, up) IN
        /\ store' = f.store
        /\ ow_raw' = f.result
        /\ ow_now' = IF Truthy(f.result) THEN pick_openweather_now(f.result) ELSE None
        /\ log' = Fetched("openweather", cfg.openweather, store[KeyOpenweather], f, up, ow_now')
    /\ pc' = "merge"
    /\ UNCHANGED <<threads, ttl, now, lastSet, lastOp, cfg, ia, levelArg, level, om_raw, om_point,
                   sg_raw, sg_point, merged, tide, resp>>

\* api_explain, line 321
StepMerge ==
    /\ pc = "merge"
    /\ merged' = merge_forecast(om_point, sg_point, ow_now)
    /\ log' = None
    /\ pc' = "tide"
    /\ UNCHANGED <<threads, store, ttl, now, lastSet, lastOp, cfg, ia, levelArg, level, om_raw, om_point,
                   sg_raw, sg_point, ow_raw, ow_now, tide, resp>>

\* api_explain, line 322
StepTide(up) ==
    /\ pc = "tide"
    /\ LET f == fetch_tide(store, ttl, now, cfg.tide, up) IN
        /\ store' = f.store
        /\ tide' = f.result
        /\ log' = Fetched("tide", cfg.tide, store[KeyTide], f, up, f.result)
    /\ pc' = "respond"
    /\ UNCHANGED <<threads, ttl, now, lastSet, lastOp, cfg, ia, levelArg, level, om_raw, om_point,
                   sg_raw, sg_point, ow_raw, ow_now, merged, resp>>

\* the mutant of Explanation: the template is rendered whenever a wave height
\* key is there
ExplanationAlways(lvl, m) ==
    IF "wave_height_m" \in DOMAIN m THEN explain(lvl, m) ELSE InsufficientData

\* api_explain, line 323
Explanation(lvl, m) ==
    IF Truthy(MergedGet(m, "wave_height_m", None)) THEN explain(lvl, m) ELSE InsufficientData

\* api_explain, lines 323-334; an exception leaving the view is Flask's 500
StepRespond ==
    /\ pc = "respond"
    /\ resp' = IF Explanation(level, merged) = Raised
               THEN [status |-> 500, body |-> Blob("error")]
               ELSE [status |-> 200,
                     body |-> [spot |-> Str("Stella Maris, Salvador-BA"),
                               level |-> level,
                               time_ref |-> MergedGet(merged, "time", None),
                               merged |-> merged,
                               open_meteo |-> om_point,
                               stormglass |-> sg_point,
                               openweather |-> ow_now,
                               tide |-> tide,
                               explanation_pt |-> Explanation(level, merged)]]
    /\ log' = None
    /\ pc' = "done"
    /\ UNCHANGED <<threads, store, ttl, now, lastSet, lastOp, cfg, ia, levelArg, level, om_raw, om_point,
                   sg_raw, sg_point, ow_raw, ow_now, merged, tide>>

\* the response is sent and the view's locals are gone
Return ==
    /\ pc = "done"
    /\ pc' = "idle"
    /\ levelArg' = None /\ level' = None
    /\ om_raw' = None /\ om_point' = None /\ sg_raw' = None /\ sg_point' = None
    /\ ow_raw' = None /\ ow_now' = None /\ merged' = None /\ tide' = None
    /\ resp' = None
    /\ UNCHANGED <<threads, store, ttl, now, lastSet, lastOp, cfg, ia, log>>

\* time passes between two requests
Elapse ==
    /\ pc = "idle"
    /\ now + TickSeconds <= MaxClock
    /\ now' = now + TickSeconds
    /\ UNCHANGED <<threads, store, ttl, lastSet, lastOp, cfg, ia, pc, levelArg, level, om_raw, om_point,
                   sg_raw, sg_point, ow_raw, ow_now, merged, tide, resp, log>>

Next ==
    \/ \E arg \in LevelArgs : ApiExplain(arg)
    \/ \E up \in OpenMeteoUpstream : StepOpenMeteo(up)
    \/ \E up \in StormglassUpstream : StepStormglass(up)
    \/ \E up \in OpenweatherUpstream : StepOpenweather(up)
    \/ StepMerge
    \/ \E up \in TideUpstream : StepTide(up)
    \/ StepRespond
    \/ Return
    \/ Elapse

Spec == Init /\ [][Next]_vars

----------------------------------------------------------------------------
(* GET /api/explain: properties *)

\* the three recognized values of the level parameter
Recognized == {Chars(INICIANTE), Chars(INTERMEDIARIO), Chars(AVANCADO)}

\* the request being answered had a level the route accepts
ValidRequest == pc = "done" /\ level \in Recognized

\* C1: a request with a recognized level is answered with status 200 and a
\* ForecastResult body, whatever the adapters returned.
ValidLevelAlways200 ==
    ValidRequest => resp.status = 200 /\ resp.body.merged = merged

\* C2, as stated: a request whose level parameter is present and is not one
\* of the three recognized values is answered with status 400.
PresentUnrecognizedLevelIs400 ==
    (pc = "done" /\ levelArg # None /\ levelArg \notin Recognized) => resp.status = 400

\* C2, amended: a request whose level parameter is non-empty and, once
\* lower-cased, is not one of the three recognized values is answered with
\* status 400 and an error object by the very step that reads the level: no
\* adapter step is taken, the cache store is left as it was and nothing is
\* fetched.
UnrecognizedLevelIs400 ==
    [][(/\ pc = "idle" /\ pc' # "idle"
        /\ levelArg' # None /\ levelArg'.c # <<>>
        /\ Lower(levelArg') \notin Recognized)
       => (/\ pc' = "done"
           /\ resp' = [status |-> 400, body |-> Blob("error")]
           /\ store' = store
           /\ log' = None
           /\ om_raw' = None /\ sg_raw' = None /\ ow_raw' = None /\ tide' = None)]_vars

\* a request for level "expert" was answered 400 while the cache held an entry
ExpertRejected ==
    /\ pc = "done"
    /\ levelArg = Chars(<<"e", "x", "p", "e", "r", "t">>)
    /\ resp.status = 400
    /\ store[KeyOpenMeteo] # NoEntry

KeyOf(adapter) ==
    CASE adapter = "open_meteo" -> KeyOpenMeteo
      [] adapter = "stormglass" -> KeyStormglass
      [] adapter = "openweather" -> KeyOpenweather
      [] adapter = "tide" -> KeyTide

\* the top-level block each provider's payload is read from
TopLevelBlock(adapter) ==
    CASE adapter = "open_meteo" -> "hourly"
      [] adapter = "stormglass" -> "hours"
      [] adapter = "openweather" -> "wind"
      [] adapter = "tide" -> "tides"

\* the adapter step just taken met an upstream failure: no credential or
\* endpoint, a transport error, a timeout, a non-success or rate-limit status,
\* a body that is not JSON, or a JSON body without the provider's block
UpstreamFailed ==
    /\ log # None
    /\ \/ ~log.enabled
       \/ /\ log.net
          /\ \/ FetchFails(log.up)
             \/ ~IsDict(log.up.body)
             \/ ~HasKey(log.up.body, TopLevelBlock(log.adapter))

\* C3: an adapter whose upstream fails returns absent, and the request is
\* still answered from the other sources.
FailedAdapterIsAbsent ==
    /\ UpstreamFailed => log.point = None
    /\ ValidRequest => resp.status = 200

\* C5: when the cache holds an unexpired entry for the adapter's key, the
\* fetch returns that entry's payload and makes no network call.
FreshEntryIsServedFromCache ==
    (/\ log # None /\ log.enabled
     /\ log.before # NoEntry
     /\ now - log.before.ts <= ttl)
    => (~log.net /\ log.raw = log.before.value)

\* C6: an adapter call that fails (no data fetched, or data from which no
\* point can be normalised) leaves no new or replaced entry under its key.
FailedCallWritesNoEntry ==
    (/\ log # None
     /\ \/ UpstreamFailed
        \/ log.net /\ log.point = None)
    => store[KeyOf(log.adapter)] \in {log.before, NoEntry}

\* the merged wave height is absent, unset or zero
NoWaveHeight ==
    \/ "wave_height_m" \notin DOMAIN merged
    \/ merged.wave_height_m = None
    \/ merged.wave_height_m = Num(0)

\* C9: a request with a recognized level whose merged wave height is absent,
\* unset or zero is answered 200 with the fixed sentence as its explanation;
\* when no source gave a point (or current weather gave one without a wind
\* speed), the merged record has no wave or wind field and an empty
\* provenance map.
NoWaveHeightIsInsufficientData ==
    /\ (ValidRequest /\ NoWaveHeight)
       => (resp.status = 200 /\ resp.body.explanation_pt = InsufficientData)
    /\ (/\ ValidRequest /\ om_point = None /\ sg_point = None
        /\ (ow_now = None \/ ow_now.wind_speed_kmh = None))
       => (/\ resp.status = 200
           /\ resp.body.merged = [time |-> None, sources |-> NoKeys]
           /\ resp.body.explanation_pt = InsufficientData)

\* a flat sea reported by Open-Meteo was answered with the fixed sentence
FlatSeaAnswered ==
    /\ ValidRequest
    /\ om_point # None
    /\ merged.wave_height_m = Num(0)
    /\ merged.sources = ("waves" :> Str("open-meteo"))
    /\ resp.status = 200
    /\ resp.body.explanation_pt = InsufficientData

----------------------------------------------------------------------------
(* merge_forecast on its own: applied to any three normalised points *)

\* the points pick_open_meteo_point can return
OmPoints ==
    {None} \cup
    {[time |-> IsoStr(0, ""),
      wave_height_m |-> h, wave_period_s |-> p, wave_direction_deg |-> Num(13),
      wind_wave_height_m |-> wh, wind_wave_period_s |-> Num(15),
      wind_wave_direction_deg |-> wd, source |-> Str("open-meteo")] :
        h \in {None, Num(0), Num(11)}, p \in {None, Num(12)},
        wh \in {None, Num(14)}, wd \in {None, Num(16)}}

\* the points pick_stormglass_point's return statement builds
SgPoints ==
    {None} \cup
    {[time |-> IsoStr(200, "Z"),
      wave_height_m |-> h, wave_period_s |-> p, wave_direction_deg |-> Num(23),
      swell_height_m |-> sh, swell_period_s |-> Num(25), swell_direction_deg |-> Num(26),
      wind_speed_kmh |-> ws, wind_direction_deg |-> wd, source |-> Str("stormglass")] :
        h \in {None, Num(0), Num(21)}, p \in {None, Num(22)}, sh \in {None, Num(24)},
        ws \in {None, MsToKmh(Num(0)), MsToKmh(Num(2))}, wd \in {None, Num(28)}}

\* the points pick_openweather_now can return
OwPoints ==
    {None} \cup
    {[wind_speed_kmh |-> ws, wind_direction_deg |-> wd, cloud_cover_pct |-> Num(40),
      temp_c |-> Num(27), rain_mm_1h |-> Num(0), source |-> Str("openweather")] :
        ws \in {None, MsToKmh(Num(0)), MsToKmh(Num(3))}, wd \in {None, Num(38)}}

InitMerge ==
    /\ store = EmptyStore
    /\ ttl = TTL_SECONDS
    /\ now = 0
    /\ lastSet = [k \in CacheKeys |-> NoEntry]
    /\ lastOp = NoOp
    /\ cfg = [stormglass |-> FALSE, openweather |-> FALSE, tide |-> FALSE]
    /\ pc = "merge"
    /\ levelArg = None /\ level = None
    /\ om_raw = None /\ sg_raw = None /\ ow_raw = None /\ tide = None
    /\ om_point \in OmPoints
    /\ sg_point \in SgPoints
    /\ ow_now \in OwPoints
    /\ merged = None
    /\ resp = None
    /\ log = None
    /\ threads = NoThreads
    /\ ia = None

MergeCall ==
    /\ pc = "merge"
    /\ merged' = merge_forecast(om_point, sg_point, ow_now)
    /\ pc' = "merged"
    /\ UNCHANGED <<threads, store, ttl, now, lastSet, lastOp, cfg, levelArg, level, om_raw, om_point,
                   sg_raw, sg_point, ow_raw, ow_now, tide, resp, log, ia>>

NextMerge == MergeCall

SpecMerge == InitMerge /\ [][NextMerge]_vars

WaveKeys == {"wave_height_m", "wave_period_s", "wave_direction_deg",
             "swell_height_m", "swell_period_s", "swell_direction_deg"}

\* C7: with a Stormglass point the six wave and swell fields are that point's
\* and provenance "waves" is stormglass; without it but with an Open-Meteo
\* point the wave fields are Open-Meteo's, the swell fields are its wind-wave
\* fields and provenance "waves" is open-meteo; with neither, none of the six
\* keys is in the merged record and provenance has no "waves".
WaveWaterfall ==
    pc = "merged" =>
        /\ sg_point # None =>
            /\ WaveKeys \subseteq DOMAIN merged
            /\ \A k \in WaveKeys : merged[k] = sg_point[k]
            /\ "waves" \in DOMAIN merged.sources
            /\ merged.sources["waves"] = Str("stormglass")
        /\ (sg_point = None /\ om_point # None) =>
            /\ WaveKeys \subseteq DOMAIN merged
            /\ merged.wave_height_m = om_point.wave_height_m
            /\ merged.wave_period_s = om_point.wave_period_s
            /\ merged.wave_direction_deg = om_point.wave_direction_deg
            /\ merged.swell_height_m = om_point.wind_wave_height_m
            /\ merged.swell_period_s = om_point.wind_wave_period_s
            /\ merged.swell_direction_deg = om_point.wind_wave_direction_deg
            /\ "waves" \in DOMAIN merged.sources
            /\ merged.sources["waves"] = Str("open-meteo")
        /\ (sg_point = None /\ om_point = None) =>
            /\ WaveKeys \cap DOMAIN merged = {}
            /\ "waves" \notin DOMAIN merged.sources

\* both wave sources gave a point, Stormglass without a wave height, and the
\* merged wave height is unset like Stormglass's
PremiumShadowsMarine ==
    /\ pc = "merged"
    /\ sg_point # None /\ om_point # None
    /\ sg_point.wave_height_m = None /\ om_point.wave_height_m = Num(11)
    /\ merged.wave_height_m = None
    /\ merged.sources["waves"] = Str("stormglass")

WindKeys == {"wind_speed_kmh", "wind_direction_deg"}

\* C8: with an OpenWeather wind speed that is not None (zero included) both
\* wind fields are OpenWeather's and provenance "wind" is openweather;
\* otherwise, with a Stormglass wind speed that is not None, both are
\* Stormglass's and provenance "wind" is stormglass; otherwise neither key is
\* in the merged record and provenance has no "wind".
WindWaterfall ==
    pc = "merged" =>
        LET owHas == ow_now # None /\ ow_now.wind_speed_kmh # None
            sgHas == sg_point # None /\ sg_point.wind_speed_kmh # None
        IN  /\ owHas =>
                /\ WindKeys \subseteq DOMAIN merged
                /\ \A k \in WindKeys : merged[k] = ow_now[k]
                /\ "wind" \in DOMAIN merged.sources
                /\ merged.sources["wind"] = Str("openweather")
            /\ (~owHas /\ sgHas) =>
                /\ WindKeys \subseteq DOMAIN merged
                /\ \A k \in WindKeys : merged[k] = sg_point[k]
                /\ "wind" \in DOMAIN merged.sources
                /\ merged.sources["wind"] = Str("stormglass")
            /\ (~owHas /\ ~sgHas) =>
                /\ WindKeys \cap DOMAIN merged = {}
                /\ "wind" \notin DOMAIN merged.sources

\* OpenWeather reports no wind at all (speed zero) while Stormglass reports
\* some, and the merged wind is OpenWeather's
CalmWindFromOpenweather ==
    /\ pc = "merged"
    /\ ow_now # None /\ ow_now.wind_speed_kmh = Num(0)
    /\ sg_point # None /\ sg_point.wind_speed_kmh = Num(72)
    /\ merged.wind_speed_kmh = Num(0)
    /\ merged.wind_direction_deg = ow_now.wind_direction_deg
    /\ merged.sources["wind"] = Str("openweather")

----------------------------------------------------------------------------
(* choose on its own: every field value of a Stormglass hour, resolved once *)

\* model names a field can carry: three of the preference list, two others
ChooseKeys == {"noaa", "icon", "sg", "ecmwf", "fcoo"}

\* what a model name can map to in the decoded JSON
ChooseValues == {Num(7), Num(12), None, Str("n/a"), Bool(TRUE)}

\* the mappings of at most MaxFields distinct names, in every key order
ChooseDicts ==
    {Dict(items) : items \in
        {s \in UNION {[1..n -> ChooseKeys \X ChooseValues] : n \in 0..MaxFields} :
            \A i, j \in DOMAIN s : i # j => s[i][1] # s[j][1]}}

\* a field that is not a mapping
ChooseOthers == {None, Num(5), Str("n/a"), EmptyList}

InitChoose ==
    /\ store = EmptyStore
    /\ ttl = TTL_SECONDS
    /\ now = 0
    /\ lastSet = [k \in CacheKeys |-> NoEntry]
    /\ lastOp = NoOp
    /\ cfg = [stormglass |-> TRUE, openweather |-> FALSE, tide |-> FALSE]
    /\ pc = "idle"
    /\ levelArg = None /\ level = None
    /\ om_raw = None /\ om_point = None /\ sg_raw = None /\ sg_point = None
    /\ ow_raw = None /\ ow_now = None /\ merged = None /\ tide = None
    /\ resp = None
    /\ ia = None
    /\ threads = NoThreads
    /\ log \in [t : {"choose"}, src_dict : ChooseDicts \cup ChooseOthers]

\* wave_height = choose(h.get("waveHeight", {})), and so for each field
ChooseCall ==
    /\ log.t = "choose"
    /\ log' = [t |-> "chosen", src_dict |-> log.src_dict, result |-> choose(log.src_dict)]
    /\ UNCHANGED <<threads, store, ttl, now, lastSet, lastOp, cfg, pc, levelArg, level, om_raw,
                   om_point, sg_raw, sg_point, ow_raw, ow_now, merged, tide, resp, ia>>

NextChoose == ChooseCall

SpecChoose == InitChoose /\ [][NextChoose]_vars

\* the preference list of the claim
PreferenceList == <<"noaa", "dwd", "meteo", "icon", "sg">>

\* a numeric value; Python counts True and False among them, as 1 and 0
Numeric(v) == v.t \in {"num", "bool"}
NumberOf(v) == IF v.t = "bool" THEN (IF v.b THEN 1 ELSE 0) ELSE v.n

\* the positions of the preference list whose name the mapping holds with a
\* numeric value, and the positions of the mapping that hold a numeric value
PreferredNumeric(d) ==
    {p \in DOMAIN PreferenceList :
        \E i \in DOMAIN d.items :
            d.items[i][1] = PreferenceList[p] /\ Numeric(d.items[i][2])}
NumericAt(d) == {i \in DOMAIN d.items : Numeric(d.items[i][2])}
Least(S) == CHOOSE x \in S : \A y \in S : x <= y

\* C12: choose returns the value of the earliest name of the preference list
\* that the mapping holds with a numeric value, whatever the mapping's key
\* order and its other keys; without such a name, the first numeric value in
\* the mapping's order; and absent when the mapping has no numeric value or
\* the field is not a mapping.
ChoosePrefersListOrder ==
    log.t = "chosen" =>
        LET d == log.src_dict
            r == log.result
        IN  IF d.t # "dict" THEN r = None
            ELSE IF PreferredNumeric(d) # {}
            THEN \E i \in DOMAIN d.items :
                    /\ d.items[i][1] = PreferenceList[Least(PreferredNumeric(d))]
                    /\ r.t = "num" /\ r.n = NumberOf(d.items[i][2])
            ELSE IF NumericAt(d) # {}
            THEN r.t = "num" /\ r.n = NumberOf(d.items[Least(NumericAt(d))][2])
            ELSE r = None

\* a mapping that opens with a numeric value under another name and holds sg
\* before noaa, both numeric and different: noaa's value was chosen
PreferredBeatsOrder ==
    /\ log.t = "chosen"
    /\ log.src_dict.t = "dict"
    /\ Len(log.src_dict.items) = 3
    /\ log.src_dict.items[1] = <<"ecmwf", Num(7)>>
    /\ log.src_dict.items[2] = <<"sg", Num(7)>>
    /\ log.src_dict.items[3] = <<"noaa", Num(12)>>
    /\ log.result = Num(12)

\* only other names are numeric, the preferred one maps to null: the first
\* numeric value in the mapping's order was chosen
FallbackFirstNumeric ==
    /\ log.t = "chosen"
    /\ log.src_dict = Dict(<< <<"noaa", None>>, <<"fcoo", Num(12)>>, <<"ecmwf", Num(7)>> >>)
    /\ log.result = Num(12)

----------------------------------------------------------------------------
(* The Streamlit front end: get_ia_interpretation *)

NoInterpretationData == Str("Dados insuficientes para gerar interpretacao da IA.")
NoInterpretationNow == Str("Nao foi possivel obter a interpretacao da IA no momento.")

\* a chat completion carrying one generated text
Completion(text) ==
    Dict(<< <<"choices", List(<< Dict(<< <<"message",
            Dict(<< <<"content", text>> >>)>> >>) >>)>> >>)

\* ia_response["choices"][0]["message"]["content"], or the KeyError,
\* IndexError or TypeError it raises
GeneratedText(ia_response) ==
    IF ~IsDict(ia_response) \/ ~HasKey(ia_response, "choices") THEN Raised
    ELSE LET choices == Item(ia_response, "choices") IN
         IF choices.t # "list" \/ choices.elems = <<>> THEN Raised
         ELSE LET first == choices.elems[1] IN
              IF ~IsDict(first) \/ ~HasKey(first, "message") THEN Raised
              ELSE LET message == Item(first, "message") IN
                   IF ~IsDict(message) \/ ~HasKey(message, "content") THEN Raised
                   ELSE Item(message, "content")

\* the level-specific part of the prompt
LevelPrompt(user_level) ==
    IF user_level = "iniciante" THEN "Foque em seguranca ..."
    ELSE IF user_level = "intermediario" THEN "Explique um pouco mais ..."
    ELSE "Detalhe nuances do swell ..."

\* get_ia_interpretation: the values it can return, Raised standing for an
\* exception that leaves it. Only requests.exceptions.RequestException is
\* caught: the transport errors, the HTTPError of raise_for_status and, in
\* the versions of requests whose JSONDecodeError derives from it, the error
\* of response.json(); in the other versions that error leaves the function.
get_ia_interpretation(data_summary, user_level, openai_api_key, up) ==
    IF ~Truthy(data_summary) \/ ~Truthy(openai_api_key) THEN {NoInterpretationData}
    ELSE IF up.kind # "http" THEN {NoInterpretationNow}
    ELSE IF up.status >= 400 THEN {NoInterpretationNow}
    ELSE IF up.body = NotJson THEN {NoInterpretationNow, Raised}
    ELSE {GeneratedText(up.body)}

IaSummaries ==
    {None, Str(""), Str("Dados Climaticos Atuais para Stella Maris: ... 1.2 metros ..."),
     Str("Dados Climaticos Atuais para Stella Maris: ... 0.4 metros ...")}
IaKeys == {None, Str(""), Str("sk-...")}
IaLevels == {"iniciante", "intermediario", "avancado"}

OpenAiUpstream ==
    {TransportError, Timeout, Http(401, Blob("error")), Http(429, Blob("error")),
     Http(500, NotJson), Http(200, Blob("error")),
     Http(200, Dict(<< <<"choices", EmptyList>> >>)),
     Http(200, Completion(Str("Mar pequeno, bom para aprender."))),
     Http(200, Completion(Str("")))}

InitIA ==
    /\ store = EmptyStore
    /\ ttl = TTL_SECONDS
    /\ now = 0
    /\ lastSet = [k \in CacheKeys |-> NoEntry]
    /\ lastOp = NoOp
    /\ cfg = [stormglass |-> FALSE, openweather |-> FALSE, tide |-> FALSE]
    /\ pc = "idle"
    /\ levelArg = None /\ level = None
    /\ om_raw = None /\ om_point = None /\ sg_raw = None /\ sg_point = None
    /\ ow_raw = None /\ ow_now = None /\ merged = None /\ tide = None
    /\ resp = None
    /\ log = None
    /\ threads = NoThreads
    /\ ia \in [t : {"call"}, data_summary : IaSummaries, user_level : IaLevels,
               openai_api_key : IaKeys]

\* the button handler calls get_ia_interpretation and the upstream answers
IaCall(up) ==
    /\ ia.t = "call"
    /\ \E r \in get_ia_interpretation(ia.data_summary, ia.user_level, ia.openai_api_key, up) :
        ia' = [t |-> "returned",
               data_summary |-> ia.data_summary, user_level |-> ia.user_level,
               openai_api_key |-> ia.openai_api_key,
               prompt |-> LevelPrompt(ia.user_level),
               up |-> IF Truthy(ia.data_summary) /\ Truthy(ia.openai_api_key) THEN up ELSE None,
               result |-> r]
    /\ UNCHANGED <<threads, store, ttl, now, lastSet, lastOp, cfg, pc, levelArg, level, om_raw,
                   om_point, sg_raw, sg_point, ow_raw, ow_now, merged, tide, resp, log>>

NextIA == \E up \in OpenAiUpstream : IaCall(up)

SpecIA == InitIA /\ [][NextIA]_vars

\* C10: get_ia_interpretation never lets a failure out: without a summary or a
\* key, on a transport error, on a non-success status and on a success status
\* whose body has no generated text it returns one of the two fixed
\* sentences, and on success it returns the generated text.
InterpretationNeverRaises ==
    ia.t = "returned" =>
        /\ ia.result # Raised
        /\ IF ia.up = None THEN ia.result = NoInterpretationData
           ELSE IF FetchFails(ia.up) \/ GeneratedText(ia.up.body) = Raised
                THEN ia.result \in {NoInterpretationData, NoInterpretationNow}
                ELSE ia.result = GeneratedText(ia.up.body)

====
